---------------------------- MODULE Spec2Model ----------------------------
(***************************************************************************)
(* A model of src/script.js: the mock storefront API (mockApi) that keeps  *)
(* a cart and a fake session in localStorage.                              *)
(*                                                                         *)
(* Every async method of mockApi is `await wait(..)` followed by a         *)
(* synchronous body.  JavaScript runs the body of a resumed async function *)
(* to completion before any other callback, so a call is modelled by two   *)
(* steps: its invocation (the arguments are fixed, a timer is started) and *)
(* its resumption (the whole body after the await, in one step).  logout   *)
(* has no await: it is one step.                                           *)
(*                                                                         *)
(* An invocation changes nothing but the set of waiting calls, and the     *)
(* caller chooses when to call, so for every order of resumptions at every *)
(* reading of the clock there are invocation times that produce it; the    *)
(* model therefore does not tie the resumption of a call to the clock at   *)
(* its invocation.  Date.now() is the variable `now`; it advances by Tick, *)
(* in whole milliseconds, and any number of timer callbacks can run within *)
(* one millisecond.  Money is kept in whole cents.                         *)
(***************************************************************************)
EXTENDS Integers, Sequences, FiniteSets, Bags, TLC

(***************************************************************************)
(* Bounds of the model.                                                    *)
(***************************************************************************)
\* largest quantity passed as an argument (the smallest is -1)
MaxQty == 2
\* largest magnitude of a stored quantity
MaxStored == 2
\* calls that may be awaiting their timer at the same time
MaxCalls == 2
\* largest value of Date.now()
MaxTime == 1

Qtys == (-1)..MaxQty
\* product ids passed as arguments: a catalog product and an unknown id
InputIds == {"p1", "x9"}
Emails == {"a@x", "b@x"}

(***************************************************************************)
(* MOCK_PRODUCTS: ids and unit prices (cents).                             *)
(***************************************************************************)
MOCK_PRODUCTS ==
  [p \in {"p1", "p2", "p3", "p4"} |->
     CASE p = "p1" -> 4500
       [] p = "p2" -> 7000
       [] p = "p3" -> 6000
       [] p = "p4" -> 3000]

\* a lookup that finds every id
FindProductAny(productId) == TRUE

\* MOCK_PRODUCTS.find(p => p.id === productId) !== undefined
FindProduct(productId) == productId \in DOMAIN MOCK_PRODUCTS

(***************************************************************************)
(* localStorage values.  getItem gives null (NoItem) for an absent key and *)
(* <<text>> for a stored text.  A JSON text of an object is modelled as    *)
(* the set of its <<key, value>> members; a JS object as a function.       *)
(***************************************************************************)
\* getItem of an absent key: null
NoItem == <<>>
\* the object {}
EmptyObj == [k \in {} |-> 0]

JSONstringify(obj) == {<<k, obj[k]>> : k \in DOMAIN obj}

JSONparse(text) ==
  [k \in {m[1] : m \in text} |-> (CHOOSE m \in text : m[1] = k)[2]]

\* mockApi._readCart applied to the value of getItem('fh_cart')
ReadCart(raw) == IF raw = NoItem THEN EmptyObj ELSE JSONparse(raw[1])

\* mockApi._writeCart: the value stored under 'fh_cart'
WriteCart(cart) == <<JSONstringify(cart)>>

\* delete cart[productId]
Delete(cart, productId) == [k \in DOMAIN cart \ {productId} |-> cart[k]]

\* cart[productId] = value
Assign(cart, productId, value) ==
  [k \in DOMAIN cart \cup {productId} |->
     IF k = productId THEN value ELSE cart[k]]

\* cart[productId] || 0
QtyOrZero(cart, productId) ==
  IF productId \in DOMAIN cart THEN cart[productId] ELSE 0


(***************************************************************************)
(* The synchronous bodies of the cart methods, as functions of the cart    *)
(* object that _readCart returned.                                         *)
(***************************************************************************)
\* an addToCart that stores qty instead of adding it
AddToCartOverwrite(cart, productId, qty) == Assign(cart, productId, qty)

\* addToCart: cart[productId] = (cart[productId] || 0) + qty
AddToCart(cart, productId, qty) ==
  Assign(cart, productId, QtyOrZero(cart, productId) + qty)

\* an addToCart that adds one item whatever qty is
AddToCartWriteOne(raw, productId, qty) ==
  WriteCart(AddToCart(ReadCart(raw), productId, 1))

\* addToCart: the text stored by _readCart, the assignment and _writeCart
AddToCartWrite(raw, productId, qty) ==
  WriteCart(AddToCart(ReadCart(raw), productId, qty))

\* setCartQuantity: if (qty <= 0) delete cart[productId]; else cart[productId] = qty
SetCartQuantity(cart, productId, qty) ==
  IF qty <= 0 THEN Delete(cart, productId) ELSE Assign(cart, productId, qty)

\* a removeFromCart that stores a zero quantity instead of deleting
RemoveFromCartZero(cart, productId) == Assign(cart, productId, 0)

\* removeFromCart: delete cart[productId]
RemoveFromCart(cart, productId) == Delete(cart, productId)

\* a checkout that skips the validation
IsEmptyCartNever(cart) == FALSE

\* checkout: Object.keys(cart).length === 0
IsEmptyCart(cart) == Cardinality(DOMAIN cart) = 0

\* a checkout that writes back the cart it read
CheckoutCartKept(cart) == cart

\* checkout: the object handed to _writeCart on success
CheckoutCart(cart) == EmptyObj

(***************************************************************************)
(* getCart: the priced summary.  Number.toFixed(2) of the exact amount     *)
(* num/den cents: the nearest cent, a tie going away from zero.  (With the *)
(* catalog's whole-dollar prices every amount is a whole number of cents,  *)
(* far from a tie, so the double arithmetic of the source agrees.)         *)
(***************************************************************************)
ToFixed2(num, den) ==
  IF num >= 0 THEN (2 * num + den) \div (2 * den)
              ELSE 0 - ((2 * (0 - num) + den) \div (2 * den))

ShippingFee == 500
TaxPercent == 7

\* MOCK_PRODUCTS.find(x => x.id === pid) || { id: pid, name: pid, price: 0 }
PriceOf(pid) == IF pid \in DOMAIN MOCK_PRODUCTS THEN MOCK_PRODUCTS[pid] ELSE 0

\* items: { ...p, qty, total: +(p.price * qty).toFixed(2) }
Items(cart) ==
  [pid \in DOMAIN cart |->
     [price |-> PriceOf(pid), qty |-> cart[pid],
      total |-> ToFixed2(PriceOf(pid) * cart[pid], 1)]]

RECURSIVE Reduce(_, _)
\* items.reduce((s, it) => s + it.total, 0) over the entries named by keys
Reduce(items, keys) ==
  IF keys = {} THEN 0
  ELSE LET k == CHOOSE x \in keys : TRUE
       IN items[k].total + Reduce(items, keys \ {k})

\* items.length > 0 ? 5.00 : 0
Shipping(items) == IF Cardinality(DOMAIN items) > 0 THEN ShippingFee ELSE 0

GetCart(cart) ==
  LET items == Items(cart)
      subtotal == Reduce(items, DOMAIN items)
      shipping == Shipping(items)
      tax == ToFixed2(subtotal * TaxPercent, 100)
      total == ToFixed2(subtotal + shipping + tax, 1)
  IN [items |-> items, subtotal |-> ToFixed2(subtotal, 1),
      shipping |-> shipping, tax |-> tax, total |-> total]

(***************************************************************************)
(* The session methods.                                                    *)
(***************************************************************************)
\* 'fake-token-' + btoa(email + ':' + Date.now())
Token(email, time) == <<"fake-token", email, time>>

\* login: the text stored under 'fh_user', JSON.stringify({ email })
LoginUser(email) == <<JSONstringify([email |-> email])>>

\* a logout that removes the token only
LogoutUserKept(raw) == raw

\* logout: the value of 'fh_user' after localStorage.removeItem('fh_user')
LogoutUser(raw) == NoItem

\* getCurrentUser: JSON.parse(localStorage.getItem('fh_user')) || null
GetCurrentUser(raw) == IF raw = NoItem THEN NoItem ELSE <<JSONparse(raw[1])>>

\* 'ORD-' + Date.now()
OrderId(time) == <<"ORD", time>>

\* the checkout form's submit handler: what it shows once checkout settles
CheckoutAlert(ok, orderId, message) ==
  IF ok THEN <<"Order placed! Order ID: ", orderId, " (fake).">>
        ELSE <<"Checkout failed: ", message>>

(***************************************************************************)
(* State.                                                                  *)
(*   fh_cart, fh_token, fh_user  the three localStorage keys               *)
(*   now                         Date.now()                                *)
(*   calls                       the bag of calls awaiting their timer     *)
(* History, recorded for the properties and read by no action's guard:     *)
(*   last      the call that completed most recently (logout included),    *)
(*             with the storage it found, what it returned or threw, and   *)
(*             for checkout the message its form handler shows             *)
(*   prev      the completion before last, kept only when it was a         *)
(*             successful call of the same method on the same product id   *)
(*             as last                                                     *)
(*   auth      the login or logout that completed most recently            *)
(*   addOnly   no setCartQuantity, removeFromCart or checkout has          *)
(*             completed yet                                               *)
(*   orderIds  the order ids returned so far                               *)
(*   dupOrder  some checkout returned an order id returned before          *)
(***************************************************************************)
VARIABLES fh_cart, fh_token, fh_user, now, calls, last, prev, auth, addOnly,
          orderIds, dupOrder

vars == <<fh_cart, fh_token, fh_user, now, calls, last, prev, auth, addOnly,
          orderIds, dupOrder>>

\* a waiting call; stale: a cart write completed while the call was waiting
Call(op, productId, qty, email) ==
  [op |-> op, productId |-> productId, qty |-> qty, email |-> email,
   stale |-> FALSE]

Waiting == BagToSet(calls)

\* the localStorage contents
Storage == [cart |-> fh_cart, token |-> fh_token, user |-> fh_user]

NoCall ==
  [op |-> "none", productId |-> "", qty |-> 0, email |-> "", stale |-> FALSE,
   ok |-> TRUE, error |-> "", pre |-> Storage, cart |-> EmptyObj,
   orderId |-> NoItem, token |-> NoItem, summary |-> GetCart(EmptyObj),
   alert |-> <<>>]

Init ==
  /\ fh_cart = NoItem
  /\ fh_token = NoItem
  /\ fh_user = NoItem
  /\ now = 0
  /\ calls = EmptyBag
  /\ last = NoCall
  /\ prev = NoCall
  /\ auth = [op |-> "none", email |-> ""]
  /\ addOnly = TRUE
  /\ orderIds = {}
  /\ dupOrder = FALSE

\* Date.now() advances
Tick ==
  /\ now < MaxTime
  /\ now' = now + 1
  /\ UNCHANGED <<fh_cart, fh_token, fh_user, calls, last, prev, auth,
                 addOnly, orderIds, dupOrder>>

(***************************************************************************)
(* Invocation: the method is called and suspends at `await wait(..)`.      *)
(***************************************************************************)
Invoke(op, productId, qty, email) ==
  /\ BagCardinality(calls) < MaxCalls
  /\ calls' = calls (+) SetToBag({Call(op, productId, qty, email)})
  /\ UNCHANGED <<fh_cart, fh_token, fh_user, now, last, prev, auth, addOnly,
                 orderIds, dupOrder>>

addToCartCall(productId, qty) == Invoke("addToCart", productId, qty, "")
setCartQuantityCall(productId, qty) ==
  Invoke("setCartQuantity", productId, qty, "")
removeFromCartCall(productId) == Invoke("removeFromCart", productId, 0, "")
getCartCall == Invoke("getCart", "", 0, "")
checkoutCall == Invoke("checkout", "", 0, "")
loginCall(email) == Invoke("login", "", 0, email)

(***************************************************************************)
(* Completion: the timer fires and the body after the await runs.          *)
(***************************************************************************)
MarkStale(call) == [call EXCEPT !.stale = TRUE]

\* what every completion records; wrote: the body called _writeCart
Complete(c, rec, wrote) ==
  /\ calls' = LET rest == calls (-) SetToBag({c})
              IN IF wrote THEN BagOfAll(MarkStale, rest) ELSE rest
  /\ last' = rec
  /\ prev' = IF /\ rec.op \in {"addToCart", "removeFromCart"}
                /\ rec.op = last.op /\ rec.productId = last.productId
                /\ rec.ok /\ last.ok
             THEN last ELSE NoCall

\* the record of call c, as it completes
Rec(c, ok, error) ==
  [op |-> c.op, productId |-> c.productId, qty |-> c.qty,
   email |-> c.email, stale |-> c.stale, ok |-> ok,
   error |-> error, pre |-> Storage, cart |-> EmptyObj, orderId |-> NoItem,
   token |-> NoItem, summary |-> GetCart(EmptyObj), alert |-> <<>>]

InRange(cart) == \A k \in DOMAIN cart : cart[k] \in (0 - MaxStored)..MaxStored

addToCart(c) ==
  /\ c.op = "addToCart"
  /\ LET productId == c.productId
         stored == AddToCartWrite(fh_cart, productId, c.qty)
         cart == ReadCart(stored)
     IN IF ~FindProduct(productId)
        THEN /\ Complete(c, Rec(c, FALSE, "Product not found"), FALSE)
             /\ UNCHANGED <<fh_cart, addOnly>>
        ELSE /\ InRange(cart)
             /\ fh_cart' = stored
             /\ Complete(c, [Rec(c, TRUE, "") EXCEPT !.cart = cart], TRUE)
             /\ UNCHANGED addOnly
  /\ UNCHANGED <<fh_token, fh_user, now, auth, orderIds, dupOrder>>

setCartQuantity(c) ==
  /\ c.op = "setCartQuantity"
  /\ LET cart == SetCartQuantity(ReadCart(fh_cart), c.productId,
                                 c.qty)
     IN /\ fh_cart' = WriteCart(cart)
        /\ Complete(c, [Rec(c, TRUE, "") EXCEPT !.cart = cart], TRUE)
  /\ addOnly' = FALSE
  /\ UNCHANGED <<fh_token, fh_user, now, auth, orderIds, dupOrder>>

removeFromCart(c) ==
  /\ c.op = "removeFromCart"
  /\ LET cart == RemoveFromCart(ReadCart(fh_cart), c.productId)
     IN /\ fh_cart' = WriteCart(cart)
        /\ Complete(c, [Rec(c, TRUE, "") EXCEPT !.cart = cart], TRUE)
  /\ addOnly' = FALSE
  /\ UNCHANGED <<fh_token, fh_user, now, auth, orderIds, dupOrder>>

getCart(c) ==
  /\ c.op = "getCart"
  /\ Complete(c, [Rec(c, TRUE, "") EXCEPT
                    !.summary = GetCart(ReadCart(fh_cart))], FALSE)
  /\ UNCHANGED <<fh_cart, fh_token, fh_user, now, auth, addOnly, orderIds,
                 dupOrder>>

checkout(c) ==
  /\ c.op = "checkout"
  /\ LET cart == ReadCart(fh_cart)
     IN IF IsEmptyCart(cart)
        THEN /\ Complete(c, [Rec(c, FALSE, "Cart is empty") EXCEPT
                               !.alert = CheckoutAlert(FALSE, NoItem,
                                                       "Cart is empty")],
                         FALSE)
             /\ UNCHANGED <<fh_cart, orderIds, dupOrder>>
        ELSE /\ fh_cart' = WriteCart(CheckoutCart(cart))
             /\ Complete(c, [Rec(c, TRUE, "") EXCEPT
                               !.orderId = OrderId(now),
                               !.alert = CheckoutAlert(TRUE, OrderId(now),
                                                       "")],
                         TRUE)
             /\ orderIds' = orderIds \cup {OrderId(now)}
             /\ dupOrder' = (dupOrder \/ OrderId(now) \in orderIds)
  /\ addOnly' = FALSE
  /\ UNCHANGED <<fh_token, fh_user, now, auth>>

login(c) ==
  /\ c.op = "login"
  /\ fh_token' = <<Token(c.email, now)>>
  /\ fh_user' = LoginUser(c.email)
  /\ Complete(c, [Rec(c, TRUE, "") EXCEPT
                    !.token = <<Token(c.email, now)>>], FALSE)
  /\ auth' = [op |-> "login", email |-> c.email]
  /\ UNCHANGED <<fh_cart, now, addOnly, orderIds, dupOrder>>

\* logout has no await: the call and its body are one step
logout ==
  /\ fh_token' = NoItem
  /\ fh_user' = LogoutUser(fh_user)
  /\ last' = [NoCall EXCEPT !.op = "logout", !.pre = Storage]
  /\ prev' = NoCall
  /\ auth' = [op |-> "logout", email |-> ""]
  /\ UNCHANGED <<fh_cart, now, calls, addOnly, orderIds, dupOrder>>

\* the methods that edit and read the cart
CartNext ==
  \/ \E productId \in InputIds, qty \in Qtys : addToCartCall(productId, qty)
  \/ \E productId \in InputIds, qty \in Qtys :
       setCartQuantityCall(productId, qty)
  \/ \E productId \in InputIds : removeFromCartCall(productId)
  \/ getCartCall
  \/ \E c \in Waiting : addToCart(c)
  \/ \E c \in Waiting : setCartQuantity(c)
  \/ \E c \in Waiting : removeFromCart(c)
  \/ \E c \in Waiting : getCart(c)

\* the session methods, Date.now(), and checkout with the calls that fill
\* the cart
SessionNext ==
  \/ Tick
  \/ \E email \in Emails : loginCall(email)
  \/ \E c \in Waiting : login(c)
  \/ logout
  \/ addToCartCall("p1", 1)
  \/ \E c \in Waiting : addToCart(c)
  \/ setCartQuantityCall("x9", 1)
  \/ \E c \in Waiting : setCartQuantity(c)
  \/ checkoutCall
  \/ \E c \in Waiting : checkout(c)

Next == CartNext \/ SessionNext

\* the whole program
Spec == Init /\ [][Next]_vars

(***************************************************************************)
(* The cart methods never write fh_token or fh_user, the session methods   *)
(* never write fh_cart, and only checkout and login read Date.now().  The  *)
(* properties are checked on two parts of Spec: CartSpec runs the methods  *)
(* that edit and read the cart with every argument, SessionSpec runs the   *)
(* session methods, the clock and checkout, with two calls that fill the   *)
(* cart.                                                                   *)
(***************************************************************************)
CartSpec == Init /\ [][CartNext]_vars

SessionSpec == Init /\ [][SessionNext]_vars

(***************************************************************************)
(* Properties.                                                             *)
(***************************************************************************)
\* the stored mapping now, and before the call recorded in rec completed
Stored == ReadCart(fh_cart)
Before(rec) == ReadCart(rec.pre.cart)
QtyIn(cart, p) == IF p \in DOMAIN cart THEN cart[p] ELSE 0
CatalogIds == {"p1", "p2", "p3", "p4"}

\* last and prev are two successful addToCart calls of one catalog product
\* that completed one right after the other
TwoAdds ==
  /\ last.op = "addToCart" /\ last.ok
  /\ prev.op = "addToCart" /\ prev.ok
  /\ prev.productId = last.productId

\* after two such calls the product holds what it held before the first plus
\* both quantities, and every other entry is as it was
BothAdded ==
  LET p == last.productId
  IN /\ DOMAIN Stored = DOMAIN Before(prev) \cup {p}
     /\ Stored[p] = QtyIn(Before(prev), p) + prev.qty + last.qty
     /\ \A k \in DOMAIN Before(prev) \ {p} : Stored[k] = Before(prev)[k]

\* C1: addToCart(p, q1) and then addToCart(p, q2), q1 and q2 positive, the
\* second called after the first completed and nothing completing in between:
\* p holds its former quantity (0 if absent) plus q1 + q2 and every other entry
\* is unchanged.
C1_SequentialAdds ==
  (TwoAdds /\ ~last.stale /\ prev.qty > 0 /\ last.qty > 0) => BothAdded

C1_Witness ==
  /\ TwoAdds /\ ~last.stale /\ prev.qty > 0 /\ last.qty > 0
  /\ prev.qty # last.qty
  /\ last.productId \in DOMAIN Before(prev)
  /\ "x9" \in DOMAIN Before(prev)

\* C2: every entry of the stored mapping has a quantity of at least 1.
C2_PositiveQuantities == \A k \in DOMAIN Stored : Stored[k] >= 1

RECURSIVE LineSum(_, _)
\* the sum of price x quantity over the entries named by keys
LineSum(cart, keys) ==
  IF keys = {} THEN 0
  ELSE LET k == CHOOSE x \in keys : TRUE
       IN (IF k \in CatalogIds THEN MOCK_PRODUCTS[k] ELSE 0) * cart[k]
            + LineSum(cart, keys \ {k})

RECURSIVE ItemCount(_, _)
\* the sum of the quantities of the entries named by keys
ItemCount(cart, keys) ==
  IF keys = {} THEN 0
  ELSE LET k == CHOOSE x \in keys : TRUE
       IN cart[k] + ItemCount(cart, keys \ {k})

\* the arithmetic of the summary s of cart: subtotal, 7% tax to the nearest
\* cent, total
SummaryAdds(cart, s) ==
  /\ s.subtotal = LineSum(cart, DOMAIN cart)
  /\ 100 * s.tax - 7 * s.subtotal \in (0 - 50)..50
  /\ s.total = s.subtotal + s.shipping + s.tax

\* the shipping rule by item count
ShippingByCount(cart, s) ==
  LET count == ItemCount(cart, DOMAIN cart)
  IN /\ count > 0 => s.shipping = 500
     /\ count = 0 => s.shipping = 0

\* C3: getCart returns subtotal = sum of price x quantity, tax = 7% of the
\* subtotal to the cent, total = subtotal + shipping + tax, shipping 5.00 when
\* the item count (sum of quantities) is positive and 0 when it is 0.
C3_Summary ==
  last.op = "getCart" =>
    /\ SummaryAdds(Before(last), last.summary)
    /\ ShippingByCount(Before(last), last.summary)

\* C4: a checkout that finds the stored mapping empty fails with 'Cart is
\* empty', returns no order id, and leaves the cart and both session keys as
\* they were; the form handler shows the error as a message.
C4_EmptyCheckout ==
  (last.op = "checkout" /\ DOMAIN Before(last) = {}) =>
    /\ ~last.ok
    /\ last.error = "Cart is empty"
    /\ last.orderId = NoItem
    /\ Storage = last.pre
    /\ last.alert = <<"Checkout failed: ", "Cart is empty">>

C4_Witness ==
  /\ last.op = "checkout" /\ DOMAIN Before(last) = {}
  /\ last.pre.cart # NoItem
  /\ last.pre.user # NoItem
  /\ last.pre.token # NoItem

\* C5: when a successful checkout completes the stored mapping is empty,
\* whatever was written while the checkout was waiting.
C5_CheckoutClears ==
  (last.op = "checkout" /\ last.ok) =>
    /\ fh_cart # NoItem
    /\ DOMAIN Stored = {}

C5_Witness ==
  /\ last.op = "checkout" /\ last.ok
  /\ last.stale
  /\ DOMAIN Before(last) = {"p1", "x9"}

\* C6: any two successful checkouts return different order ids.
C6_UniqueOrderIds == ~dupOrder

C7_LogoutWitness ==
  /\ last.op = "logout" /\ last.pre.user = NoItem /\ last.pre.cart # NoItem

\* C8: removeFromCart never fails; for an id with no entry it leaves the
\* stored mapping as it was; called twice for one id it leaves what one call
\* leaves.
C8_RemoveAbsent ==
  /\ last.op = "removeFromCart" => last.ok /\ last.error = ""
  /\ (last.op = "removeFromCart" /\ last.productId \notin DOMAIN Before(last))
       => Stored = Before(last)
  /\ (last.op = "removeFromCart" /\ prev.op = "removeFromCart"
        /\ prev.productId = last.productId)
       => fh_cart = last.pre.cart

C8_Witness ==
  /\ last.op = "removeFromCart" /\ prev.op = "removeFromCart"
  /\ prev.productId = last.productId
  /\ last.productId \in DOMAIN Before(prev)
  /\ DOMAIN Stored # {}

\* C9: addToCart of an id that is not in the catalog fails with 'Product not
\* found' and leaves the storage as it was; while only addToCart calls have
\* completed every stored key is a catalog id.
C9_UnknownProduct ==
  /\ (last.op = "addToCart" /\ last.productId \notin CatalogIds) =>
       /\ ~last.ok
       /\ last.error = "Product not found"
       /\ Storage = last.pre
  /\ addOnly => DOMAIN Stored \subseteq CatalogIds

C9_Witness ==
  /\ last.op = "addToCart" /\ last.productId \notin CatalogIds
  /\ addOnly
  /\ DOMAIN Stored # {}

(***************************************************************************)
(* C10.  Two overlapping addToCart calls: both are invoked, then both      *)
(* resume, in either order.  An invocation touches no storage and a        *)
(* resumption is AddToCartWrite, so an interleaving of the two calls is    *)
(* the order of their resumptions.                                         *)
(***************************************************************************)
\* the storage after the calls named by order (1: q1, 2: q2) have resumed
AfterBoth(raw, p, q1, q2, order) ==
  LET q(i) == IF order[i] = 1 THEN q1 ELSE q2
  IN AddToCartWrite(AddToCartWrite(raw, p, q(1)), p, q(2))

\* the stored texts a cart of catalog product p can hold
StoredTexts(p) ==
  {NoItem} \cup {WriteCart(EmptyObj)}
    \cup {WriteCart([k \in {p} |-> n]) : n \in 0..MaxStored}

\* two addToCart calls of one catalog product, with positive quantities, are
\* waiting together
Overlapping ==
  \E p \in CatalogIds :
    LET adds == {c \in Waiting :
                   c.op = "addToCart" /\ c.productId = p /\ c.qty > 0}
    IN \/ Cardinality(adds) >= 2
       \/ \E c \in adds : CopiesIn(c, calls) >= 2

\* C10 as claimed: two addToCart calls can overlap, and there is an
\* interleaving of two overlapping addToCart calls of a catalog product, with
\* positive quantities q1 and q2, from the stored cart or from any cart of
\* that product, after which the stored quantity is smaller than the initial
\* quantity + q1 + q2.
C10_LostUpdate ==
  Overlapping =>
    \E p \in CatalogIds, q1, q2 \in 1..MaxQty,
       order \in {<<1, 2>>, <<2, 1>>} :
      \E raw \in StoredTexts(p) \cup {fh_cart} :
        ReadCart(AfterBoth(raw, p, q1, q2, order))[p]
          < QtyIn(ReadCart(raw), p) + q1 + q2

\* C10 amended: when two overlapping addToCart calls of one product complete
\* one right after the other, both quantities are in the stored cart; and
\* every successful addToCart, overlapped or not, adds its quantity to what is
\* stored when it resumes.
C10_NoLostUpdate ==
  /\ (TwoAdds /\ last.stale) => BothAdded
  /\ (last.op = "addToCart" /\ last.ok) =>
       Stored[last.productId]
         = QtyIn(Before(last), last.productId) + last.qty

C10_Witness ==
  /\ TwoAdds /\ last.stale
  /\ prev.qty > 0 /\ last.qty > 0 /\ prev.qty # last.qty
  /\ last.productId \in DOMAIN Before(prev)

=============================================================================
